---- MODULE Spec2Model ----
(***************************************************************************)
(* A model of pyqtgraph's named-colour palette (namedColorManager.py,      *)
(* namedPen.py) and of the draggable target marker with its attached label *)
(* (graphicsItems/TargetItem.py).                                          *)
(*                                                                         *)
(* QColor objects are Python references: the palette dictionaries hold     *)
(* references into a heap of QColor objects, so that an in-place           *)
(* QColor.setAlpha is visible through every dictionary entry that holds    *)
(* the same object.  The heap is the objects as they were built            *)
(* (BuiltColors) overridden by qcolors, which holds the objects a setAlpha *)
(* has changed.  QPen.setColor copies the colour value into the pen.       *)
(* Python's None is the empty tuple where a value is optional.             *)
(***************************************************************************)
EXTENDS Integers, Sequences, FiniteSets, Bags, TLC

VARIABLES
    color_dic,      \* NamedColorManager.color_dic (= functions.Colors): name -> QColor reference
    qcolors,        \* the QColor objects changed in place since they were built: reference -> [rgb, alpha]
    pens,           \* the live NamedPen objects (the manager's WeakSet): a bag of [identifier, color]
    ncmLast,        \* what the most recent palette/pen call raised, notified and emitted
    pos,            \* TargetItem._pos
    movable,        \* TargetItem.movable
    moving,         \* TargetItem.moving
    cursorOffset,   \* TargetItem.cursorOffset
    mouseHovering,  \* TargetItem.mouseHovering
    pen, hoverPen, brush, hoverBrush,   \* TargetItem's normal and hover styles
    currentPen, currentBrush,           \* the styles paint() uses
    label,          \* TargetItem.label: <<>> or <<[format, text]>>
    scene,          \* whether the target (and so its label) is in a scene
    labelArg,       \* the label argument of the most recent label call
    tgtLast         \* the most recent TargetItem call and what it did

paletteVars == <<color_dic, qcolors, pens, ncmLast>>
styleVars   == <<mouseHovering, pen, hoverPen, brush, hoverBrush, currentPen, currentBrush>>
targetVarsButLast == <<pos, movable, moving, cursorOffset, label, scene, labelArg>>
targetVars  == <<targetVarsButLast, tgtLast>>
vars == <<paletteVars, styleVars, targetVars>>

None == <<>>

(***************************************************************************)
(* Bounds of the model.                                                    *)
(***************************************************************************)
MaxPens  == 2       \* NamedPen objects alive at a time
MaxCoord == 1       \* target and mouse coordinates range over 0..MaxCoord

(***************************************************************************)
(* Python exceptions.                                                      *)
(***************************************************************************)
NoError == [type |-> "none", msg |-> ""]
Raise(t, m) == [type |-> t, msg |-> m]

\* The classes an `except <handler>:` clause catches: the raised class's bases.
ExceptionBases(t) ==
    CASE t = "KeyError"       -> {"KeyError", "LookupError", "Exception"}
      [] t = "ValueError"     -> {"ValueError", "Exception"}
      [] t = "TypeError"      -> {"TypeError", "Exception"}
      [] t = "AttributeError" -> {"AttributeError", "Exception"}
      [] OTHER                -> {}

\* try: <lookup> except ValueError as exc: raise ValueError("Color ... is not in
\* list of defined colors") from exc
ExceptValueError(exc) ==
    IF exc.type # "none" /\ "ValueError" \in ExceptionBases(exc.type)
    THEN Raise("ValueError", "is not in list of defined colors")
    ELSE exc

\* dict[key]
GetItem(dict, key) ==
    IF key \in DOMAIN dict
    THEN [exc |-> NoError, ref |-> <<dict[key]>>]
    ELSE [exc |-> Raise("KeyError", key), ref |-> None]

(***************************************************************************)
(* DEFAULT_COLORS, built as the module builds it: thirteen QColor objects,  *)
(* then the functional and the plot colours as further names of the SAME   *)
(* objects.                                                                *)
(***************************************************************************)
BaseColors ==
    [ b |-> <<0, 0, 255, 255>>,      g |-> <<0, 255, 0, 255>>,
      r |-> <<255, 0, 0, 255>>,      c |-> <<0, 255, 255, 255>>,
      m |-> <<255, 0, 255, 255>>,    y |-> <<255, 255, 0, 255>>,
      k |-> <<0, 0, 0, 255>>,        w |-> <<255, 255, 255, 255>>,
      d |-> <<150, 150, 150, 255>>,  l |-> <<200, 200, 200, 255>>,
      s |-> <<100, 100, 150, 255>>,
      gr_acc |-> <<200, 200, 100, 255>>,
      gr_reg |-> <<0, 0, 255, 50>> ]

FunctionalColors ==
    [ gr_fg |-> "d", gr_bg |-> "k", gr_txt |-> "d", gr_hov |-> "r" ]

PlotColors ==
    [ p0 |-> "l", p1 |-> "y", p2 |-> "r", p3 |-> "m", p4 |-> "b", p5 |-> "c",
      p6 |-> "g", p7 |-> "d", p8 |-> "d", p9 |-> "d", pA |-> "d", pB |-> "d" ]

DefaultRef(key) == <<"DEFAULT_COLORS", key>>

DEFAULT_COLORS ==
    [ key \in DOMAIN BaseColors \cup DOMAIN FunctionalColors \cup DOMAIN PlotColors |->
        IF key \in DOMAIN BaseColors THEN DefaultRef(key)
        ELSE IF key \in DOMAIN FunctionalColors THEN DefaultRef(FunctionalColors[key])
        ELSE DefaultRef(PlotColors[key]) ]

QColor(rgba) == [rgb |-> <<rgba[1], rgba[2], rgba[3]>>, alpha |-> rgba[4]]

(***************************************************************************)
(* The dictionaries a caller can hand to redefinePalette.  "Colors" is the *)
(* manager's own dictionary as returned by colors(); "DEFAULT_COLORS" is   *)
(* the module's dictionary; the others are built by the caller:            *)
(*   "dark"      every required name, each with a QColor of its own;      *)
(*   "partial"   "dark" without 'gr_hov' and 'pB'.                         *)
(***************************************************************************)
DarkRef(key) == <<"dark", key>>

DarkPalette == [key \in DOMAIN DEFAULT_COLORS |-> DarkRef(key)]
PartialPalette == [key \in DOMAIN DEFAULT_COLORS \ {"gr_hov", "pB"} |-> DarkRef(key)]

CallerDicts == {"DEFAULT_COLORS", "dark", "partial"}
DictArgs == {"Colors"} \cup CallerDicts

\* The mapping a dictionary argument holds, given the manager's dictionary.
Content(d, colors) ==
    CASE d = "Colors"         -> colors
      [] d = "DEFAULT_COLORS" -> DEFAULT_COLORS
      [] d = "dark"           -> DarkPalette
      [] d = "partial"        -> PartialPalette

EmptyDict == [key \in {} |-> None]

\* dict.update(other)
Update(dict, other) ==
    [key \in DOMAIN dict \cup DOMAIN other |->
        IF key \in DOMAIN other THEN other[key] ELSE dict[key]]

\* Every QColor object as it was built.
BuiltColors ==
    [ref \in {DefaultRef(k) : k \in DOMAIN BaseColors}
             \cup {DarkRef(k) : k \in DOMAIN DEFAULT_COLORS} |->
        IF ref[1] = "DEFAULT_COLORS" THEN QColor(BaseColors[ref[2]])
        ELSE LET q == BaseColors[DEFAULT_COLORS[ref[2]][2]]
             IN  QColor(<<255 - q[1], 255 - q[2], 255 - q[3], q[4]>>)]

\* The QColor object behind a reference, as it is now.
ColorOf(heap, ref) == IF ref \in DOMAIN heap THEN heap[ref] ELSE BuiltColors[ref]

(***************************************************************************)
(* Inputs of the pen operations.                                           *)
(***************************************************************************)
PenNames == {"gr_fg", "nope"}      \* 'gr_fg' shares its QColor with 'd'; "nope" is no colour
Alphas   == {None, <<50>>}
\* setColor's `name`: None, a name, or a QColor instance (AxisItem's workaround)
NameArgs ==
    {[kind |-> "None", str |-> "", alpha |-> 0]}
    \cup {[kind |-> "str", str |-> n, alpha |-> 0] : n \in PenNames}
    \cup {[kind |-> "QColor", str |-> "", alpha |-> 50]}

(***************************************************************************)
(* NamedPen (namedPen.py).  Each operator returns the exception raised,    *)
(* the heap after the call and the colour copied into the QPen.            *)
(***************************************************************************)
\* if alpha is not None: qcol.setAlpha( alpha )  -- in place, on the shared object
SetAlpha(heap, ref, alpha) ==
    IF alpha # None
    THEN [r \in DOMAIN heap \cup {ref} |->
            IF r = ref THEN [ColorOf(heap, ref) EXCEPT !.alpha = alpha[1]] ELSE heap[r]]
    ELSE heap

_updateQColor(identifier, heap, Colors) ==
    LET name  == identifier[1]
        alpha == identifier[2]
        got   == GetItem(Colors, name)             \* qcol = fn.Colors[name]
        exc   == ExceptValueError(got.exc)
    IN  IF exc.type # "none"
        THEN [exc |-> exc, heap |-> heap, color |-> None]
        ELSE LET heap2 == SetAlpha(heap, got.ref[1], alpha)
             IN  [exc |-> NoError, heap |-> heap2, color |-> <<ColorOf(heap2, got.ref[1])>>]

\* paletteChange without its `qcol.setAlpha( alpha )`
paletteChange_noAlpha(penObj, heap, color_dict, Colors) ==
    LET got == GetItem(IF color_dict = None THEN Colors ELSE color_dict[1], penObj.identifier[1])
        exc == ExceptValueError(got.exc)
    IN  IF exc.type # "none"
        THEN [exc |-> exc, heap |-> heap, color |-> None]
        ELSE [exc |-> NoError, heap |-> heap, color |-> <<ColorOf(heap, got.ref[1])>>]

paletteChange(penObj, heap, color_dict, Colors) ==
    LET name  == penObj.identifier[1]
        alpha == penObj.identifier[2]
        \* if color_dict is None: color_dict = fn.NAMED_COLOR_MANAGER.colors()
        dict  == IF color_dict = None THEN Colors ELSE color_dict[1]
        got   == GetItem(dict, name)               \* qcol = color_dict[name]
        exc   == ExceptValueError(got.exc)
    IN  IF exc.type # "none"
        THEN [exc |-> exc, heap |-> heap, color |-> None]
        ELSE LET heap2 == SetAlpha(heap, got.ref[1], alpha)
             IN  [exc |-> NoError, heap |-> heap2, color |-> <<ColorOf(heap2, got.ref[1])>>]

\* The most recent call: a NamedPen method ("NamedPen") or the manager's
\* "redefinePalette"; what it raised, how many registered pens it sent
\* paletteChange to and whether it emitted paletteHasChangedSignal.
Outcome(call, exc, notified, emitted) ==
    [call |-> call, exc |-> exc, notified |-> notified, emitted |-> emitted]

One(penObj) == SetToBag({penObj})

\* NamedPen(name, alpha=alpha): the pen exists, and is registered with the
\* manager, only when __init__ returns.
NamedPen__init__(name, alpha) ==
    /\ BagCardinality(pens) < MaxPens
    /\ LET r == _updateQColor(<<name, alpha>>, qcolors, color_dic)
       IN  /\ qcolors' = r.heap
           /\ pens' = IF r.exc.type = "none"
                      THEN pens (+) One([identifier |-> <<name, alpha>>, color |-> r.color[1]])
                      ELSE pens
           /\ ncmLast' = Outcome("NamedPen", r.exc, 0, FALSE)
    /\ UNCHANGED <<color_dic, styleVars, targetVars>>

\* The (name, alpha) setColor stores before it looks the colour up.
setColorIdentifier(penObj, nameArg, alpha) ==
    CASE nameArg.kind = "None"   -> <<penObj.identifier[1], alpha>>
      [] nameArg.kind = "QColor" ->
            <<penObj.identifier[1], IF alpha = None THEN <<nameArg.alpha>> ELSE alpha>>
      [] OTHER                   -> <<nameArg.str, alpha>>

\* self._identifier = ident; self._updateQColor(ident)
StoreAndUpdate(penObj, ident) ==
    LET r == _updateQColor(ident, qcolors, color_dic)
    IN  /\ qcolors' = r.heap
        /\ pens' = (pens (-) One(penObj)) (+)
                   One([identifier |-> ident,
                        color |-> IF r.exc.type = "none" THEN r.color[1] ELSE penObj.color])
        /\ ncmLast' = Outcome("NamedPen", r.exc, 0, FALSE)

setColor(penObj, nameArg, alpha) ==
    /\ BagIn(penObj, pens)
    /\ StoreAndUpdate(penObj, setColorIdentifier(penObj, nameArg, alpha))
    /\ UNCHANGED <<color_dic, styleVars, targetVars>>

setAlpha(penObj, alpha) ==
    /\ BagIn(penObj, pens)
    /\ StoreAndUpdate(penObj, <<penObj.identifier[1], alpha>>)
    /\ UNCHANGED <<color_dic, styleVars, targetVars>>

\* pen.paletteChange(None), called directly
paletteChangeCall(penObj) ==
    /\ BagIn(penObj, pens)
    /\ LET r == paletteChange(penObj, qcolors, None, color_dic)
       IN  /\ qcolors' = r.heap
           /\ pens' = IF r.exc.type = "none"
                      THEN (pens (-) One(penObj)) (+) One([penObj EXCEPT !.color = r.color[1]])
                      ELSE pens
           /\ ncmLast' = Outcome("NamedPen", r.exc, 0, FALSE)
    /\ UNCHANGED <<color_dic, styleVars, targetVars>>

\* A pen nothing refers to any more leaves the manager's WeakSet.
Collect(penObj) ==
    /\ BagIn(penObj, pens)
    /\ pens' = pens (-) One(penObj)
    /\ ncmLast' = Outcome("NamedPen", NoError, 0, FALSE)
    /\ UNCHANGED <<color_dic, qcolors, styleVars, targetVars>>

(***************************************************************************)
(* NamedColorManager (namedColorManager.py).                               *)
(***************************************************************************)
\* for key in DEFAULT_COLORS: if key not in color_dic: raise ValueError(...)
\* the check left out
MissingKeys_unchecked(dict) == {}

MissingKeys(dict) == {key \in DOMAIN DEFAULT_COLORS : key \notin DOMAIN dict}

\* The orders in which `for obj in self.registered_objects` can visit the pens.
Orders(bag) ==
    LET n == BagCardinality(bag)
    IN  {o \in [1..n -> BagToSet(bag)] :
            \A e \in BagToSet(bag) : Cardinality({i \in 1..n : o[i] = e}) = CopiesIn(e, bag)}

\* for obj in self.registered_objects: obj.paletteChange( self.color_dic )
\* st.pens collects the pens visited, as the call left them.
RECURSIVE NotifyAll(_, _, _)
NotifyAll(order, st, dict) ==
    IF order = <<>> THEN st
    ELSE IF st.exc.type # "none"
    THEN NotifyAll(Tail(order), [st EXCEPT !.pens = @ (+) One(Head(order))], dict)
    ELSE LET penObj == Head(order)
             r == paletteChange(penObj, st.heap, <<dict>>, dict)
         IN  NotifyAll(Tail(order),
                       [exc      |-> r.exc,
                        heap     |-> r.heap,
                        pens     |-> st.pens (+)
                                     One(IF r.exc.type = "none"
                                         THEN [penObj EXCEPT !.color = r.color[1]]
                                         ELSE penObj),
                        notified |-> st.notified + 1],
                       dict)

\* redefinePalette(d), d a dictionary argument or "None"
redefinePalette(d) ==
    LET missing == IF d # "None" THEN MissingKeys(Content(d, color_dic)) ELSE {}
        cleared == EmptyDict                                   \* self.color_dic.clear()
        \* the argument is read after the clear: colors() is the cleared dictionary
        updated == Update(cleared, Content(d, cleared))        \* self.color_dic.update(color_dic)
    IN  IF missing # {}
        THEN /\ ncmLast' = Outcome("redefinePalette", Raise("ValueError", "Palette definition is missing"), 0, FALSE)
             /\ UNCHANGED <<color_dic, qcolors, pens, styleVars, targetVars>>
        ELSE IF d = "None"
        THEN \* dict.update(None): 'NoneType' object is not iterable
             /\ color_dic' = cleared
             /\ ncmLast' = Outcome("redefinePalette", Raise("TypeError", "object is not iterable"), 0, FALSE)
             /\ UNCHANGED <<qcolors, pens, styleVars, targetVars>>
        ELSE \E order \in Orders(pens) :
             LET st == NotifyAll(order,
                                 [exc |-> NoError, heap |-> qcolors, pens |-> EmptyBag, notified |-> 0],
                                 updated)
             IN  /\ color_dic' = updated
                 /\ qcolors' = st.heap
                 /\ pens' = st.pens
                 \* self.paletteHasChangedSignal.emit()
                 /\ ncmLast' = Outcome("redefinePalette", st.exc, st.notified, st.exc.type = "none")
                 /\ UNCHANGED <<styleVars, targetVars>>

PaletteInit ==
    /\ color_dic = DEFAULT_COLORS      \* color_dic.clear(); color_dic.update(DEFAULT_COLORS)
    /\ qcolors = [ref \in {} |-> None]
    /\ pens = EmptyBag                 \* registered_objects = weakref.WeakSet()
    /\ ncmLast = Outcome("__init__", NoError, 0, FALSE)

PaletteNext ==
    \/ \E name \in PenNames, alpha \in Alphas : NamedPen__init__(name, alpha)
    \/ \E penObj \in BagToSet(pens), nameArg \in NameArgs, alpha \in Alphas :
          setColor(penObj, nameArg, alpha)
    \/ \E penObj \in BagToSet(pens), alpha \in Alphas : setAlpha(penObj, alpha)
    \/ \E penObj \in BagToSet(pens) : paletteChangeCall(penObj)
    \/ \E penObj \in BagToSet(pens) : Collect(penObj)
    \/ \E d \in DictArgs \cup {"None"} : redefinePalette(d)

(***************************************************************************)
(* TargetItem and TargetLabel (graphicsItems/TargetItem.py).               *)
(***************************************************************************)
Coords == 0..MaxCoord
Grid == Coords \X Coords
Add(a, b) == <<a[1] + b[1], a[2] + b[2]>>
Sub(a, b) == <<a[1] - b[1], a[2] - b[2]>>

\* setPos's argument: its Python type and the coordinates it carries
PosTypes == {"tuple", "list", "QPointF", "QPoint", "ndarray"}
PosArgs == [type : PosTypes, xy : Grid]

\* Label texts: format strings, with or without replacement fields, and callables.
DefaultFormat == "x = {:0.3f}, y = {:0.3f}"
FieldFormat == "{:.1f} | {:.1f}"
PlainText == "Target"
Callable == "<function fmt(x, y)>"
IsStr(f) == f \in {DefaultFormat, FieldFormat, PlainText}
IsCallable(f) == f = Callable
HasFields(f) == f \in {DefaultFormat, FieldFormat}

\* self.format.format(x, y): the text the format string makes of (x, y)
StrFormat(f, x, y) == IF HasFields(f) THEN <<f, x, y>> ELSE <<f>>
\* self.format(x, y)
CallFormat(f, x, y) == <<f, x, y>>
\* the text derived from L at (x, y)
TextOf(f, x, y) == IF IsStr(f) THEN StrFormat(f, x, y) ELSE CallFormat(f, x, y)

LabelArgs == {None, <<PlainText>>, <<FieldFormat>>, <<Callable>>}
\* labelOpts: None, {'text': ...} or {'offset': <neither tuple, list nor QPoint(F)>}
LabelOpts ==
    { [text |-> None, offsetOk |-> TRUE],
      [text |-> <<FieldFormat>>, offsetOk |-> TRUE],
      [text |-> <<Callable>>, offsetOk |-> TRUE],
      [text |-> None, offsetOk |-> FALSE] }
NoLabelOpts == [text |-> None, offsetOk |-> TRUE]

\* What fn.mkPen / fn.mkBrush return: the constructor's defaults or a caller's style.
PenVals == {"(255, 255, 0)", "(255, 0, 255)", "penA", "penB"}
BrushVals == {"(0, 0, 255, 50)", "(0, 255, 255, 100)", "brushA"}

Buttons == {"LeftButton", "RightButton"}
\* A drag event: its button, isStart(), isFinish(), where on the target the
\* button went down (buttonDownPos(), item coordinates) and where the mouse is
\* (mapToParent(pos()), parent coordinates).
Grabs == {<<0, 0>>, <<1, 0>>}
DragEvents ==
    [button : {"LeftButton"}, isStart : BOOLEAN, isFinish : BOOLEAN, down : Grabs, at : Grid]
    \cup [button : {"RightButton"}, isStart : BOOLEAN, isFinish : BOOLEAN,
          down : {<<0, 0>>}, at : {<<0, 0>>}]
HoverEvents == [isExit : BOOLEAN, acceptDrags : BOOLEAN]

\* The most recent TargetItem call, what it raised, whether it accepted its
\* event and how often it emitted sigPositionChanged / sigPositionChangeFinished.
Did(call, exc, accepted, changed, finished) ==
    [call |-> call, exc |-> exc, accepted |-> accepted, changed |-> changed, finished |-> finished]

\* TextItem.setText(text): the item displays `text`
TextItem_setText(lbl, text) == [lbl EXCEPT !.text = text]

\* TargetLabel.valueChanged, for the target at `p`
valueChanged(lbl, p) ==
    IF IsStr(lbl.format) THEN TextItem_setText(lbl, StrFormat(lbl.format, p[1], p[2]))
    ELSE IF IsCallable(lbl.format) THEN TextItem_setText(lbl, CallFormat(lbl.format, p[1], p[2]))
    ELSE lbl

\* TargetLabel(target, **labelOpts), for the target at `p`
TargetLabel__init__(opts, p) ==
    IF ~opts.offsetOk
    THEN [exc |-> Raise("TypeError", "Offset parameter is the wrong data type"), label |-> None]
    ELSE [exc   |-> NoError,
          label |-> <<valueChanged([format |-> IF opts.text = None THEN DefaultFormat
                                               ELSE opts.text[1],
                                    text   |-> <<>>], p)>>]

\* TargetItem._updateLabel
_updateLabel(lbl, p) == IF lbl = None THEN lbl ELSE <<valueChanged(lbl[1], p)>>

\* sigPositionChanged with no label connected to it
EmitPositionChanged_unconnected(lbl, p) == lbl

\* sigPositionChanged reaches the attached label's valueChanged
EmitPositionChanged(lbl, p) == IF lbl = None THEN lbl ELSE <<valueChanged(lbl[1], p)>>

\* TargetItem.setLabel(arg, opts) on a target at `p` with label `lbl`
setLabelResult(arg, opts, lbl, p, inScene) ==
    IF arg = None /\ lbl # None
    THEN \* self.label.scene().removeItem(self.label): scene() is None outside a scene
         IF inScene THEN [exc |-> NoError, label |-> None]
         ELSE [exc |-> Raise("AttributeError", "'NoneType' object has no attribute 'removeItem'"),
               label |-> lbl]
    ELSE IF lbl = None
    THEN LET made == TargetLabel__init__(opts, p)
         IN  [exc |-> made.exc, label |-> _updateLabel(made.label, p)]
    ELSE [exc |-> NoError, label |-> _updateLabel(<<TextItem_setText(lbl[1], arg)>>, p)]

\* setPos taking whatever it is given
setPos_anyType(arg) == <<arg.xy>>

\* the isinstance chain of setPos: the new position, or no position (TypeError)

setPosConvert(arg) ==
    CASE arg.type = "tuple" -> <<arg.xy>>                         \* newPos = pos
      [] arg.type = "list"  -> <<arg.xy>>                         \* newPos = tuple(pos)
      [] arg.type \in {"QPointF", "QPoint"} -> <<arg.xy>>         \* newPos = (pos.x(), pos.y())
      [] OTHER -> None                                            \* raise TypeError

\* TargetItem.setPos(arg) on a target at `p` with label `lbl`
setPosResult(arg, p, lbl) ==
    LET newPos == setPosConvert(arg)
    IN  IF newPos = None
        THEN [exc |-> Raise("TypeError", ""), pos |-> p, label |-> lbl, changed |-> 0]
        ELSE IF p # newPos[1]
        THEN [exc |-> NoError, pos |-> newPos[1],
              label |-> EmitPositionChanged(lbl, newPos[1]), changed |-> 1]
        ELSE [exc |-> NoError, pos |-> p, label |-> lbl, changed |-> 0]

\* TargetItem(pos=p, movable=mv, pen=.., hoverPen=.., brush=.., hoverBrush=..,
\*            label=arg, labelOpts=opts), when the constructor returns
TargetItem__init__(p, mv, pn, hpn, br, hbr, arg, opts) ==
    LET r == setLabelResult(arg, opts, None, p, FALSE)
    IN  /\ r.exc.type = "none"
        /\ movable = mv
        /\ moving = FALSE
        /\ mouseHovering = FALSE
        /\ pen = pn /\ hoverPen = hpn /\ brush = br /\ hoverBrush = hbr
        /\ currentPen = pn /\ currentBrush = br
        /\ pos = p
        /\ cursorOffset = None
        /\ label = r.label
        /\ scene = FALSE
        /\ labelArg = arg
        /\ tgtLast = Did("__init__", NoError, FALSE, 0, 0)

\* TargetItem()
TargetDefault ==
    TargetItem__init__(<<0, 0>>, TRUE, "(255, 255, 0)", "(255, 0, 255)",
                       "(0, 0, 255, 50)", "(0, 255, 255, 100)", None, NoLabelOpts)

setPos(arg) ==
    /\ LET r == setPosResult(arg, pos, label)
       IN  /\ pos' = r.pos
           /\ label' = r.label
           /\ tgtLast' = Did("setPos", r.exc, FALSE, r.changed, 0)
    /\ UNCHANGED <<movable, moving, cursorOffset, scene, labelArg, styleVars, paletteVars>>

setLabel(arg, opts) ==
    /\ LET r == setLabelResult(arg, opts, label, pos, scene)
       IN  /\ label' = r.label
           /\ tgtLast' = Did("setLabel", r.exc, FALSE, 0, 0)
    /\ labelArg' = arg
    /\ UNCHANGED <<pos, movable, moving, cursorOffset, scene, styleVars, paletteVars>>

\* The view adds the target to its scene, or removes it.
addItem ==
    /\ ~scene
    /\ scene' = TRUE
    /\ tgtLast' = Did("addItem", NoError, FALSE, 0, 0)
    /\ UNCHANGED <<pos, movable, moving, cursorOffset, label, labelArg, styleVars, paletteVars>>

removeItem ==
    /\ scene
    /\ scene' = FALSE
    /\ tgtLast' = Did("removeItem", NoError, FALSE, 0, 0)
    /\ UNCHANGED <<pos, movable, moving, cursorOffset, label, labelArg, styleVars, paletteVars>>

\* the early return without its `not self.movable`
DragIgnored_buttonOnly(ev) == ev.button # "LeftButton"

\* if not self.movable or int(ev.button() & LeftButton) == 0: return
DragIgnored(ev) == ~movable \/ ev.button # "LeftButton"

\* mapToParent(p) of an item at `pos`
mapToParent(p) == Add(pos, p)

mouseDragEvent(ev) ==
    IF DragIgnored(ev)
    THEN /\ tgtLast' = Did("mouseDragEvent", NoError, FALSE, 0, 0)
         /\ UNCHANGED <<pos, movable, moving, cursorOffset, label, scene, labelArg,
                        styleVars, paletteVars>>
    ELSE LET \* if ev.isStart(): cursorOffset = self.pos() - mapToParent(buttonDownPos())
             offset  == IF ev.isStart THEN <<Sub(pos, mapToParent(ev.down))>> ELSE cursorOffset
             started == ev.isStart \/ moving
             \* self.setPos(self.cursorOffset + self.mapToParent(ev.pos())): a Point
             r == setPosResult([type |-> "QPointF", xy |-> Add(offset[1], ev.at)], pos, label)
         IN  /\ cursorOffset' = offset
             /\ IF ~started
                THEN /\ tgtLast' = Did("mouseDragEvent", NoError, TRUE, 0, 0)
                     /\ UNCHANGED <<pos, moving, label>>
                ELSE /\ Add(offset[1], ev.at) \in Grid
                     /\ pos' = r.pos
                     /\ label' = r.label
                     /\ moving' = ~ev.isFinish
                     /\ tgtLast' = Did("mouseDragEvent", NoError, TRUE, r.changed,
                                       IF ev.isFinish THEN 1 ELSE 0)
             /\ UNCHANGED <<movable, scene, labelArg, styleVars, paletteVars>>

mouseClickEvent(button) ==
    IF moving /\ button = "RightButton"
    THEN /\ moving' = FALSE
         /\ label' = EmitPositionChanged(label, pos)
         /\ tgtLast' = Did("mouseClickEvent", NoError, TRUE, 1, 1)
         /\ UNCHANGED <<pos, movable, cursorOffset, scene, labelArg, styleVars, paletteVars>>
    ELSE /\ tgtLast' = Did("mouseClickEvent", NoError, FALSE, 0, 0)
         /\ UNCHANGED <<pos, movable, moving, cursorOffset, label, scene, labelArg,
                        styleVars, paletteVars>>

\* setMouseHover(hover): the styles it leaves
setMouseHoverStyles(hover) ==
    IF mouseHovering = hover
    THEN UNCHANGED <<mouseHovering, currentPen, currentBrush>>
    ELSE /\ mouseHovering' = hover
         /\ currentBrush' = IF hover THEN hoverBrush ELSE brush
         /\ currentPen' = IF hover THEN hoverPen ELSE pen

setMouseHover(hover) ==
    /\ setMouseHoverStyles(hover)
    /\ tgtLast' = Did("setMouseHover", NoError, FALSE, 0, 0)
    /\ UNCHANGED <<pen, hoverPen, brush, hoverBrush, pos, movable, moving, cursorOffset,
                   label, scene, labelArg, paletteVars>>

hoverEvent(ev) ==
    /\ setMouseHoverStyles(movable /\ ~ev.isExit /\ ev.acceptDrags)
    /\ tgtLast' = Did("hoverEvent", NoError, FALSE, 0, 0)
    /\ UNCHANGED <<pen, hoverPen, brush, hoverBrush, pos, movable, moving, cursorOffset,
                   label, scene, labelArg, paletteVars>>

setBrush(b) ==
    /\ brush' = b
    /\ currentBrush' = IF ~mouseHovering THEN b ELSE currentBrush
    /\ tgtLast' = Did("setBrush", NoError, FALSE, 0, 0)
    /\ UNCHANGED <<mouseHovering, pen, hoverPen, hoverBrush, currentPen, targetVarsButLast, paletteVars>>

setHoverBrush(b) ==
    /\ hoverBrush' = b
    /\ currentBrush' = IF mouseHovering THEN b ELSE currentBrush
    /\ tgtLast' = Did("setHoverBrush", NoError, FALSE, 0, 0)
    /\ UNCHANGED <<mouseHovering, pen, hoverPen, brush, currentPen, targetVarsButLast, paletteVars>>

setPen(p) ==
    /\ pen' = p
    /\ currentPen' = IF ~mouseHovering THEN p ELSE currentPen
    /\ tgtLast' = Did("setPen", NoError, FALSE, 0, 0)
    /\ UNCHANGED <<mouseHovering, hoverPen, brush, hoverBrush, currentBrush, targetVarsButLast, paletteVars>>

\* setHoverPen that also draws with the new pen while the mouse is away
setHoverPen_always(p) ==
    /\ hoverPen' = p
    /\ currentPen' = p
    /\ tgtLast' = Did("setHoverPen", NoError, FALSE, 0, 0)
    /\ UNCHANGED <<mouseHovering, pen, brush, hoverBrush, currentBrush, targetVarsButLast, paletteVars>>

setHoverPen(p) ==
    /\ hoverPen' = p
    /\ currentPen' = IF mouseHovering THEN p ELSE currentPen
    /\ tgtLast' = Did("setHoverPen", NoError, FALSE, 0, 0)
    /\ UNCHANGED <<mouseHovering, pen, brush, hoverBrush, currentBrush, targetVarsButLast, paletteVars>>

\* paint(p): p.setPen(self.currentPen); p.setBrush(self.currentBrush)
paint == [pen |-> currentPen, brush |-> currentBrush]

TargetInit ==
    /\ PaletteInit
    /\ \E p \in Grid, mv \in BOOLEAN, arg \in LabelArgs, opts \in LabelOpts :
          TargetItem__init__(p, mv, "(255, 255, 0)", "(255, 0, 255)",
                             "(0, 0, 255, 50)", "(0, 255, 255, 100)", arg, opts)

TargetNext ==
    \/ \E arg \in PosArgs : setPos(arg)
    \/ \E arg \in LabelArgs, opts \in LabelOpts : setLabel(arg, opts)
    \/ addItem
    \/ removeItem
    \/ \E ev \in DragEvents : mouseDragEvent(ev)
    \/ \E button \in Buttons : mouseClickEvent(button)
    \/ \E ev \in HoverEvents : hoverEvent(ev)

HoverInit ==
    /\ PaletteInit
    /\ \E mv \in BOOLEAN, pn \in {"(255, 255, 0)", "penA"}, hpn \in {"(255, 0, 255)", "penB"} :
          TargetItem__init__(<<0, 0>>, mv, pn, hpn, "(0, 0, 255, 50)", "(0, 255, 255, 100)",
                             None, NoLabelOpts)

HoverNext ==
    \/ \E p \in PenVals : setPen(p)
    \/ \E p \in PenVals : setHoverPen(p)
    \/ \E b \in BrushVals : setBrush(b)
    \/ \E b \in BrushVals : setHoverBrush(b)
    \/ \E hover \in BOOLEAN : setMouseHover(hover)
    \/ \E ev \in HoverEvents : hoverEvent(ev)

\* a fresh manager beside a default target
Init == PaletteInit /\ TargetDefault
Next == PaletteNext \/ TargetNext \/ HoverNext
Spec == Init /\ [][Next]_vars

\* the palette and its pens
PaletteSpec == Init /\ [][PaletteNext]_vars
\* a target's position, dragging and label
TargetSpec == TargetInit /\ [][TargetNext]_vars
\* a target's styles and hovering
HoverSpec == HoverInit /\ [][HoverNext]_vars

(***************************************************************************)
(* Properties of the palette and the pens.                                 *)
(***************************************************************************)
LacksRequiredKey(d) == \E key \in DOMAIN DEFAULT_COLORS : key \notin DOMAIN Content(d, color_dic)

\* with the pen's stored alpha applied when that alpha is not None
WithAlpha(color, alpha) == IF alpha # None THEN [color EXCEPT !.alpha = alpha[1]] ELSE color

\* how many live pens store `ident`
IdentifierCount(bag, ident) ==
    BagCardinality([penObj \in {x \in BagToSet(bag) : x.identifier = ident} |-> bag[penObj]])

\* C1: redefinePalette(d) with a mapping d that lacks a required colour name
\* raises ValueError and changes nothing: the palette (and the colours it holds)
\* and the pens are as before, no pen is sent paletteChange and
\* paletteHasChangedSignal is not emitted.
C1_MissingKeyRejected ==
    [][\A d \in DictArgs :
          (ncmLast'.call = "redefinePalette" /\ LacksRequiredKey(d) /\ redefinePalette(d))
          => /\ ncmLast'.exc.type = "ValueError"
             /\ ncmLast'.notified = 0
             /\ ~ncmLast'.emitted
             /\ color_dic' = color_dic
             /\ qcolors' = qcolors
             /\ pens' = pens]_vars

\* a redefinition was refused for a missing name while pens were registered
\* and the palette was not the default one
C1_Witness ==
    /\ ncmLast.exc = Raise("ValueError", "Palette definition is missing")
    /\ BagCardinality(pens) = MaxPens
    /\ color_dic = DarkPalette

\* C2: NamedPen(name) and setColor(name) with a name that is no key of the
\* active palette raise a ValueError saying the colour is not in the list of
\* defined colours.
C2_UnknownNameValueError ==
    [][\A name \in PenNames, alpha \in Alphas :
          (/\ ncmLast'.call = "NamedPen"
           /\ name \notin DOMAIN color_dic
           /\ \/ NamedPen__init__(name, alpha)
              \/ \E penObj \in BagToSet(pens) :
                    setColor(penObj, [kind |-> "str", str |-> name, alpha |-> 0], alpha))
          => ncmLast'.exc = Raise("ValueError", "is not in list of defined colors")]_vars

\* C3: when redefinePalette(d) returns, the active palette has exactly d's keys
\* and gives each the colour d held for it when the call was made.
C3_PaletteIsArgument ==
    [][\A d \in DictArgs :
          (/\ ncmLast'.call = "redefinePalette" /\ ncmLast'.exc.type = "none"
           /\ ~LacksRequiredKey(d) /\ redefinePalette(d))
          => /\ DOMAIN color_dic' = DOMAIN Content(d, color_dic)
             /\ \A key \in DOMAIN color_dic' \cap DOMAIN Content(d, color_dic) :
                   ColorOf(qcolors', color_dic'[key]) = ColorOf(qcolors, Content(d, color_dic)[key])]_vars

\* C4: when redefinePalette(d) returns, every live pen has the colour d gave
\* for the pen's name, with the pen's alpha applied when it is not None.
C4_PensFollowPalette ==
    [][\A d \in DictArgs :
          (/\ ncmLast'.call = "redefinePalette" /\ ncmLast'.exc.type = "none"
           /\ ~LacksRequiredKey(d) /\ redefinePalette(d))
          => \A penObj \in BagToSet(pens') :
                /\ penObj.identifier[1] \in DOMAIN Content(d, color_dic)
                /\ penObj.color = WithAlpha(ColorOf(qcolors, Content(d, color_dic)[penObj.identifier[1]]),
                                            penObj.identifier[2])]_vars

\* C5: a redefinition changes no pen's stored (name, alpha), and after one that
\* succeeds every pen whose stored alpha is not None has that opacity.
C5_AlphaPersists ==
    [][\A d \in DictArgs \cup {"None"} :
          (ncmLast'.call = "redefinePalette" /\ redefinePalette(d))
          => /\ \A name \in PenNames, alpha \in Alphas :
                   IdentifierCount(pens', <<name, alpha>>) = IdentifierCount(pens, <<name, alpha>>)
             /\ ncmLast'.exc.type = "none"
                => \A penObj \in BagToSet(pens') :
                      penObj.identifier[2] # None
                      => penObj.color.alpha = penObj.identifier[2][1]]_vars

\* a redefinition to the dark palette has just updated a translucent pen and an
\* opaque one
C5_Witness ==
    /\ ncmLast.emitted /\ ncmLast.notified = MaxPens
    /\ color_dic = DarkPalette
    /\ \E a, b \in BagToSet(pens) :
          /\ a.identifier[2] # None /\ a.color.alpha = a.identifier[2][1]
          /\ a.color.rgb = BuiltColors[DarkRef("gr_fg")].rgb
          /\ b.identifier[2] = None

\* C12: no NamedPen operation (construction, setColor, setAlpha, paletteChange)
\* changes a colour stored in the shared palette: every palette entry has the
\* colour and opacity it was defined with, whatever the pens' alphas are.
C12_PaletteColorsAsDefined ==
    \A key \in DOMAIN color_dic :
        ColorOf(qcolors, color_dic[key]) = BuiltColors[color_dic[key]]

\* C13: setColor(name) with a name that is not in the palette leaves the pen
\* unchanged: its stored (name, alpha) and its colour are those from before the
\* call, so a later redefinePalette with a complete dictionary of the caller's
\* updates every registered pen without error.
C13_FailedSetColorLeavesPen ==
    [][/\ \A name \in PenNames, alpha \in Alphas, penObj \in BagToSet(pens) :
             (/\ ncmLast'.call = "NamedPen"
              /\ name \notin DOMAIN color_dic
              /\ setColor(penObj, [kind |-> "str", str |-> name, alpha |-> 0], alpha))
             => pens' = pens
       /\ \A d \in CallerDicts :
             (/\ ncmLast'.call = "redefinePalette"
              /\ ~LacksRequiredKey(d)
              /\ redefinePalette(d))
             => /\ ncmLast'.exc.type = "none"
                /\ ncmLast'.notified = BagCardinality(pens)]_vars

(***************************************************************************)
(* Properties of the target and its label.                                 *)
(***************************************************************************)
\* C6: setPos with an argument that is neither tuple, list, QPointF nor QPoint
\* raises TypeError, leaves the position as it was and emits no
\* sigPositionChanged.
C6_SetPosRejectsOtherTypes ==
    [][\A arg \in PosArgs :
          (/\ tgtLast'.call = "setPos"
           /\ arg.type \notin {"tuple", "list", "QPointF", "QPoint"}
           /\ setPos(arg))
          => /\ tgtLast'.exc.type = "TypeError"
             /\ pos' = pos
             /\ label' = label
             /\ tgtLast'.changed = 0]_vars

\* a setPos was refused on a target that had been moved and carries a label
C6_Witness ==
    /\ tgtLast.call = "setPos" /\ tgtLast.exc.type = "TypeError"
    /\ pos # <<0, 0>>
    /\ label # None

\* the event did nothing: no move, no drag in progress begun, no accept, no signal
Untouched ==
    /\ pos' = pos
    /\ moving' = moving
    /\ ~tgtLast'.accepted
    /\ tgtLast'.changed = 0
    /\ tgtLast'.finished = 0

\* C7: a target that is not movable is never moving, and no drag, click or hover
\* event moves it, starts a drag, is accepted or emits sigPositionChanged or
\* sigPositionChangeFinished; nor does a drag event of another button than the
\* left one, on any target.
C7_UnmovableNotDragged ==
    [][/\ ~movable => ~moving /\ ~moving'
       /\ (~movable /\ tgtLast'.call \in {"mouseDragEvent", "mouseClickEvent", "hoverEvent"})
          => Untouched
       /\ \A ev \in DragEvents :
             (tgtLast'.call = "mouseDragEvent" /\ ev.button # "LeftButton" /\ mouseDragEvent(ev))
             => Untouched]_vars

\* an unmovable target off the origin has just been sent a drag event
C7_Witness ==
    /\ ~movable
    /\ tgtLast.call = "mouseDragEvent"
    /\ pos # <<0, 0>>

\* C8: the pen and brush paint() uses are the hover pen and brush while
\* mouseHovering is True and the normal pen and brush while it is False.
C8_CurrentStyleFollowsHover ==
    paint = [pen   |-> IF mouseHovering THEN hoverPen ELSE pen,
             brush |-> IF mouseHovering THEN hoverBrush ELSE brush]

\* the normal pen was set while the mouse hovered over a target whose hover pen
\* had been set too
C8_Witness ==
    /\ mouseHovering
    /\ tgtLast.call = "setPen"
    /\ pen = "penA" /\ hoverPen = "penB" /\ currentPen = "penB"
    /\ brush = "brushA" /\ currentBrush = hoverBrush

\* C9: a target whose most recent label (the constructor's label argument or
\* setLabel's) is None has no TargetLabel attached.
C9_NoneMeansNoLabel == labelArg = None => label = None

\* C10: after setLabel(L) with L a string or a callable, a label is attached and
\* it shows the text derived from L at the target's position.
C10_LabelShowsArgument ==
    (tgtLast.call = "setLabel" /\ tgtLast.exc.type = "none" /\ labelArg # None)
    => /\ label # None
       /\ label[1].text = TextOf(labelArg[1], pos[1], pos[2])

\* C11: while a label is attached, after every change of the target's position
\* by setPos or by a drag the label's text is the label's format applied to the
\* (x, y) that position() now returns.
C11_LabelFollowsPosition ==
    [][(/\ tgtLast'.call \in {"setPos", "mouseDragEvent"}
        /\ pos' # pos
        /\ label' # None)
       => label'[1].text = TextOf(label'[1].format, pos'[1], pos'[2])]_vars

\* a drag has just moved a target whose label shows a caller's format string
C11_Witness ==
    /\ tgtLast.call = "mouseDragEvent" /\ tgtLast.changed = 1
    /\ label # None
    /\ label[1].format = FieldFormat
    /\ pos = <<1, 1>>
    /\ label[1].text = <<FieldFormat, 1, 1>>

====
